---- MODULE Spec2Model ----
(***************************************************************************)
(* The suitter::messaging ledger (sources/messaging.move): the shared      *)
(* ConversationRegistry, the shared Conversation objects and the entry     *)
(* functions that mutate them.  Every entry function runs as one atomic    *)
(* transaction; an abort reverts every write of the transaction.           *)
(* The client-side pipeline (utils/messageEncryption.ts): the functions    *)
(* that derive the conversation identity, encrypt and upload a message or  *)
(* a file, download and decrypt it, and verify a content hash; each call   *)
(* advances from one await of an external service to the next.             *)
(***************************************************************************)
EXTENDS Integers, Sequences, FiniteSets, TLC

\* ------------------------------------------------------------------ bounds
MaxWork == 2        \* Spec: conversations created + messages sent + clock ticks
MaxLedgerWork == 3  \* LedgerSpec: messages sent + clock ticks
MaxClock == 1       \* IndexSpec, ConcSpec: the clock advances at most this far
WordBits == 4       \* modelled width of a u64 (2^64 does not fit a TLC integer)
MaxInflight == 2    \* start_conversation transactions submitted and not yet committed
MaxChars == 1       \* PipelineSpec, DigestSpec: UTF-16 code units in a message's text

\* ------------------------------------------------------- program constants
ENotParticipant == 1
EMessageEmpty == 3
ECannotMessageSelf == 4
EInvalidBlobId == 5

MAX_U64 == 2^WordBits - 1

\* ------------------------------------------------------------------ inputs
Addr == {"0xaa", "0xbb", "0xcc"}
\* String and vector<u8> are sequences; the empty one is <<>>.
BlobIds == {<<>>, <<"b", "1">>}
Hashes == {<<>>, <<171>>}
MediaIds == {<<>>, <<"m">>}
UpToIndices == (0..MaxLedgerWork) \cup {MAX_U64}

\* Option<T>: none is <<>>, some(x) is <<x>>.
none == <<>>
some(x) == <<x>>

VARIABLES
    conversations,   \* ConversationRegistry.conversations: address -> (address -> ID)
    convs,           \* the shared Conversation objects, by object ID
    ids_created,     \* object IDs handed out so far (fresh-ID source of object::new)
    total_messages,  \* GlobalRegistry message counter (increment_messages)
    clock,           \* Clock.timestamp_ms
    tx,              \* effects of the last executed call
    inflight,        \* submitted start_conversation transactions and their effects
    marking,         \* the mark_messages_as_read transaction being executed, call by call
    walrus,          \* Walrus blob store: blob id -> the bytes stored under it
    client,          \* the messageEncryption.ts call in progress, or the last one made
    sealed           \* what each returned encryptAndUpload* call was given and returned

vars == <<conversations, convs, ids_created, total_messages, clock, tx, inflight,
          marking, walrus, client, sealed>>

\* The client-side pipeline's part of the state, and the chain's.
pipeline == <<walrus, client, sealed>>
ledger == <<conversations, convs, ids_created, total_messages, clock, tx, inflight,
            marking>>

\* ------------------------------------------------------------- sui::table
table_contains(t, k) == k \in DOMAIN t
table_borrow(t, k) == t[k]
\* table::add aborts when the key is already there; callers test table_contains first
\* or carry the abort themselves.
table_add(t, k, v) == t @@ (k :> v)
table_new == << >>

\* ------------------------------------------------------ registry helpers
conversation_exists(registry, user1, user2) ==
    IF table_contains(registry, user1) /\ table_contains(table_borrow(registry, user1), user2)
    THEN TRUE
    ELSE IF table_contains(registry, user2) /\ table_contains(table_borrow(registry, user2), user1)
    THEN TRUE
    ELSE FALSE

get_conversation_id_helper(registry, user1, user2) ==
    IF table_contains(registry, user1) /\ table_contains(table_borrow(registry, user1), user2)
    THEN some(table_borrow(table_borrow(registry, user1), user2))
    ELSE IF table_contains(registry, user2) /\ table_contains(table_borrow(registry, user2), user1)
    THEN some(table_borrow(table_borrow(registry, user2), user1))
    ELSE none

get_conversation_id(registry, user1, user2) ==
    get_conversation_id_helper(registry, user1, user2)

is_participant(conversation, user) ==
    conversation.participant1 = user \/ conversation.participant2 = user

\* ------------------------------------------------------------ effects
\* What a call leaves to its caller: the function called, ctx.sender(), success or
\* abort with its code, the object created, the events emitted, the value returned.
Effects(op, sender, status, code, created, events, ret) ==
    [op |-> op, sender |-> sender, status |-> status, code |-> code,
     created |-> created, events |-> events, ret |-> ret]

NoTx == Effects("none", "", "success", 0, none, <<>>, none)

\* A slot for a transaction in flight; Idle when nothing was submitted in it.
Idle == [state |-> "none"]

\* No mark_messages_as_read transaction has been executed call by call.  Otherwise the
\* record holds the transaction's arguments, the vector behind &mut messages, the
\* stack of mark_messages_as_read_helper activations (their index and end_index
\* arguments) and the indices passed to vector::borrow_mut so far.
NoMarking ==
    [state |-> "idle", conversation |-> 0, reader |-> "", up_to_index |-> 0,
     messages |-> <<>>, stack |-> <<>>, visited |-> <<>>]

\* The client before its first pipeline call.  A call's frame holds its arguments
\* (participants is the caller's array object as it now is, participantsAtCall its
\* elements when the call was made), its locals, the external calls it has awaited
\* and what it returned or threw.
NoCall ==
    [fn |-> "none", pc |-> "idle", payload |-> none, data |-> none,
     conversationId |-> none, participants |-> none, participantsAtCall |-> none,
     blobId |-> none, sessionKey |-> none, txBytes |-> none, originalMimeType |-> none,
     finalSessionKey |-> none, finalTxBytes |-> none,
     contentHash |-> none, identity |-> none, encryptedBytes |-> none,
     log |-> <<>>, result |-> none]

Init ==
    /\ conversations = table_new
    /\ convs = << >>
    /\ ids_created = 0
    /\ total_messages = 0
    /\ clock = 0
    /\ tx = NoTx
    /\ inflight = [slot \in 1..MaxInflight |-> Idle]
    /\ marking = NoMarking
    /\ walrus = << >>
    /\ client = NoCall
    /\ sealed = << >>

\* ------------------------------------------------------ start_conversation
\* The transaction's outcome as a value: status/code, the registry as written, the
\* Conversation object shared (an Option) and the events emitted.  `uid` is the fresh
\* UID object::new(ctx) returns, `now` is clock.timestamp_ms().
StartOutcome(status, code, registry, shared, events) ==
    [status |-> status, code |-> code, registry |-> registry, shared |-> shared,
     events |-> events]

\* Faulty variant: the sender is stored as both participants.
new_conversation_sender_twice(uid, sender, other_user, now) ==
    [id |-> uid,
     participant1 |-> sender,
     participant2 |-> sender,
     messages |-> <<>>,
     last_message_timestamp_ms |-> now]

new_conversation(uid, sender, other_user, now) ==
    [id |-> uid,
     participant1 |-> sender,
     participant2 |-> other_user,
     messages |-> <<>>,
     last_message_timestamp_ms |-> now]

conversation_created_event(conversation_id, sender, other_user, now) ==
    [type |-> "ConversationCreated",
     conversation_id |-> conversation_id,
     participant1 |-> sender,
     participant2 |-> other_user,
     timestamp_ms |-> now]

\* One direction of the registry: conversations[user][other] = conversation_id, with
\* the inner table made on first use.  duplicate says that table::add found the key
\* (it aborts the transaction).
\* Faulty variant: the inner table is added without asking whether the user has one.
register_always_add(registry, user, other, conversation_id) ==
    [duplicate |-> table_contains(registry, user),
     registry |-> IF table_contains(registry, user)
                  THEN registry
                  ELSE [table_add(registry, user, table_new) EXCEPT
                            ![user] = table_add(@, other, conversation_id)]]

register(registry, user, other, conversation_id) ==
    LET outer == IF ~table_contains(registry, user)
                 THEN table_add(registry, user, table_new)
                 ELSE registry
    IN  [duplicate |-> table_contains(table_borrow(outer, user), other),
         registry |-> [outer EXCEPT ![user] = table_add(@, other, conversation_id)]]

\* Faulty variant: the conversation is registered under (sender, other_user) only.
create_conversation_oneway(registry, sender, other_user, now, uid) ==
    LET conversation == new_conversation(uid, sender, other_user, now)
        forward == register(registry, sender, other_user, conversation.id)
    IN  IF forward.duplicate
        THEN StartOutcome("abort_dynamic_field", 0, registry, none, <<>>)
        ELSE StartOutcome("success", 0, forward.registry, some(conversation),
                          <<conversation_created_event(conversation.id, sender,
                                                       other_user, now)>>)

\* The creating branch of start_conversation.
create_conversation(registry, sender, other_user, now, uid) ==
    LET conversation == new_conversation(uid, sender, other_user, now)
        conversation_id == conversation.id
        forward == register(registry, sender, other_user, conversation_id)
        reverse == register(forward.registry, other_user, sender, conversation_id)
    IN  IF forward.duplicate \/ reverse.duplicate
        THEN StartOutcome("abort_dynamic_field", 0, registry, none, <<>>)
        ELSE StartOutcome("success", 0, reverse.registry, some(conversation),
                          <<conversation_created_event(conversation_id, sender,
                                                       other_user, now)>>)

\* Faulty variant: the pair is treated as ordered, in the check and in the registry.
start_conversation_directed(registry, sender, other_user, now, uid) ==
    IF ~(sender # other_user)
    THEN StartOutcome("abort", ECannotMessageSelf, registry, none, <<>>)
    ELSE IF table_contains(registry, sender)
            /\ table_contains(table_borrow(registry, sender), other_user)
    THEN StartOutcome("success", 0, registry, none, <<>>)
    ELSE create_conversation_oneway(registry, sender, other_user, now, uid)

\* Faulty variant: the sender # other_user assertion is missing.
start_conversation_unchecked_self(registry, sender, other_user, now, uid) ==
    IF conversation_exists(registry, sender, other_user)
    THEN StartOutcome("success", 0, registry, none, <<>>)
    ELSE create_conversation(registry, sender, other_user, now, uid)

\* Faulty variant: the created event is emitted before the early return as well.
start_conversation_reannounce(registry, sender, other_user, now, uid) ==
    IF ~(sender # other_user)
    THEN StartOutcome("abort", ECannotMessageSelf, registry, none, <<>>)
    ELSE IF conversation_exists(registry, sender, other_user)
    THEN StartOutcome("success", 0, registry, none,
                      <<conversation_created_event(
                            get_conversation_id_helper(registry, sender, other_user)[1],
                            sender, other_user, now)>>)
    ELSE create_conversation(registry, sender, other_user, now, uid)

start_conversation(registry, sender, other_user, now, uid) ==
    IF ~(sender # other_user)
    THEN StartOutcome("abort", ECannotMessageSelf, registry, none, <<>>)
    ELSE IF conversation_exists(registry, sender, other_user)
    THEN StartOutcome("success", 0, registry, none, <<>>)
    ELSE create_conversation(registry, sender, other_user, now, uid)

\* The writes of a start_conversation transaction to the chain state.
ApplyStart(r) ==
    /\ conversations' = r.registry
    /\ convs' = IF r.shared = none THEN convs
                ELSE convs @@ (r.shared[1].id :> r.shared[1])
    /\ ids_created' = IF r.shared = none THEN ids_created ELSE ids_created + 1

StartEffects(sender, r) ==
    Effects("start_conversation", sender, r.status, r.code,
            IF r.shared = none THEN none ELSE some(r.shared[1].id),
            r.events, none)

StartConversation(sender, other_user) ==
    LET r == start_conversation(conversations, sender, other_user, clock, ids_created + 1)
    IN  /\ ApplyStart(r)
        /\ tx' = StartEffects(sender, r)
        /\ UNCHANGED <<total_messages, clock, inflight, marking, pipeline>>

\* ------------------------------------------------------------- send_message
\* Outcome of a call on one Conversation: status/code, the Conversation as written,
\* the events emitted and the number of increment_messages calls made.
ConvOutcome(status, code, conversation, events, counted) ==
    [status |-> status, code |-> code, conversation |-> conversation,
     events |-> events, counted |-> counted]

Message(sender, encrypted_content_blob_id, content_hash, timestamp_ms, is_read, media_blob_id) ==
    [sender |-> sender,
     encrypted_content_blob_id |-> encrypted_content_blob_id,
     content_hash |-> content_hash,
     timestamp_ms |-> timestamp_ms,
     is_read |-> is_read,
     media_blob_id |-> media_blob_id]

message_sent_event(conversation, sender, timestamp_ms) ==
    LET receiver == IF sender = conversation.participant1
                    THEN conversation.participant2
                    ELSE conversation.participant1
    IN  [type |-> "MessageSent",
         conversation_id |-> conversation.id,
         sender |-> sender,
         receiver |-> receiver,
         timestamp_ms |-> timestamp_ms]

\* Faulty variant: the message is written over the last one instead of after it.
push_message_overwrite(conversation, message, timestamp_ms) ==
    [conversation EXCEPT !.messages = IF @ = <<>> THEN <<message>>
                                      ELSE [@ EXCEPT ![Len(@)] = message],
                         !.last_message_timestamp_ms = timestamp_ms]

\* Faulty variant: the message is put at the front of the vector.
push_message_front(conversation, message, timestamp_ms) ==
    [conversation EXCEPT !.messages = <<message>> \o @,
                         !.last_message_timestamp_ms = timestamp_ms]

\* Faulty variant: the cached timestamp is not refreshed.
push_message_stale(conversation, message, timestamp_ms) ==
    [conversation EXCEPT !.messages = Append(@, message)]

push_message(conversation, message, timestamp_ms) ==
    [conversation EXCEPT !.messages = Append(@, message),
                         !.last_message_timestamp_ms = timestamp_ms]

\* Faulty variant: the content hash is validated before the blob id.
send_message_hash_first(conversation, sender, encrypted_content_blob_id, content_hash, now) ==
    IF ~(sender = conversation.participant1 \/ sender = conversation.participant2)
    THEN ConvOutcome("abort", ENotParticipant, conversation, <<>>, 0)
    ELSE IF ~(Len(content_hash) > 0)
    THEN ConvOutcome("abort", EMessageEmpty, conversation, <<>>, 0)
    ELSE IF ~(Len(encrypted_content_blob_id) > 0)
    THEN ConvOutcome("abort", EInvalidBlobId, conversation, <<>>, 0)
    ELSE
    LET message == Message(sender, encrypted_content_blob_id, content_hash, now, FALSE, none)
    IN  ConvOutcome("success", 0, push_message(conversation, message, now),
                    <<message_sent_event(conversation, sender, now)>>, 1)

send_message(conversation, sender, encrypted_content_blob_id, content_hash, now) ==
    IF ~(sender = conversation.participant1 \/ sender = conversation.participant2)
    THEN ConvOutcome("abort", ENotParticipant, conversation, <<>>, 0)
    ELSE IF ~(Len(encrypted_content_blob_id) > 0)
    THEN ConvOutcome("abort", EInvalidBlobId, conversation, <<>>, 0)
    ELSE IF ~(Len(content_hash) > 0)
    THEN ConvOutcome("abort", EMessageEmpty, conversation, <<>>, 0)
    ELSE
    LET timestamp_ms == now
        message == Message(sender, encrypted_content_blob_id, content_hash,
                           timestamp_ms, FALSE, none)
    IN  ConvOutcome("success", 0, push_message(conversation, message, timestamp_ms),
                    <<message_sent_event(conversation, sender, timestamp_ms)>>, 1)

\* Faulty variant: the media blob id is not validated.
send_message_with_media_unchecked_media(conversation, sender, encrypted_content_blob_id, content_hash, media_blob_id, now) ==
    IF ~(sender = conversation.participant1 \/ sender = conversation.participant2)
    THEN ConvOutcome("abort", ENotParticipant, conversation, <<>>, 0)
    ELSE IF ~(Len(encrypted_content_blob_id) > 0)
    THEN ConvOutcome("abort", EInvalidBlobId, conversation, <<>>, 0)
    ELSE IF ~(Len(content_hash) > 0)
    THEN ConvOutcome("abort", EMessageEmpty, conversation, <<>>, 0)
    ELSE
    LET message == Message(sender, encrypted_content_blob_id, content_hash, now, FALSE,
                           some(media_blob_id))
    IN  ConvOutcome("success", 0, push_message(conversation, message, now),
                    <<message_sent_event(conversation, sender, now)>>, 1)

\* Faulty variant: the participant assertion is missing.
send_message_with_media_open(conversation, sender, encrypted_content_blob_id, content_hash, media_blob_id, now) ==
    IF ~(Len(encrypted_content_blob_id) > 0)
    THEN ConvOutcome("abort", EInvalidBlobId, conversation, <<>>, 0)
    ELSE IF ~(Len(media_blob_id) > 0)
    THEN ConvOutcome("abort", EInvalidBlobId, conversation, <<>>, 0)
    ELSE IF ~(Len(content_hash) > 0)
    THEN ConvOutcome("abort", EMessageEmpty, conversation, <<>>, 0)
    ELSE
    LET message == Message(sender, encrypted_content_blob_id, content_hash, now, FALSE,
                           some(media_blob_id))
    IN  ConvOutcome("success", 0, push_message(conversation, message, now),
                    <<message_sent_event(conversation, sender, now)>>, 1)

send_message_with_media(conversation, sender, encrypted_content_blob_id, content_hash, media_blob_id, now) ==
    IF ~(sender = conversation.participant1 \/ sender = conversation.participant2)
    THEN ConvOutcome("abort", ENotParticipant, conversation, <<>>, 0)
    ELSE IF ~(Len(encrypted_content_blob_id) > 0)
    THEN ConvOutcome("abort", EInvalidBlobId, conversation, <<>>, 0)
    ELSE IF ~(Len(media_blob_id) > 0)
    THEN ConvOutcome("abort", EInvalidBlobId, conversation, <<>>, 0)
    ELSE IF ~(Len(content_hash) > 0)
    THEN ConvOutcome("abort", EMessageEmpty, conversation, <<>>, 0)
    ELSE
    LET timestamp_ms == now
        message == Message(sender, encrypted_content_blob_id, content_hash,
                           timestamp_ms, FALSE, some(media_blob_id))
    IN  ConvOutcome("success", 0, push_message(conversation, message, timestamp_ms),
                    <<message_sent_event(conversation, sender, timestamp_ms)>>, 1)

\* The writes of a transaction on the Conversation object c.
ApplyConv(c, r) ==
    /\ convs' = [convs EXCEPT ![c] = r.conversation]
    /\ total_messages' = total_messages + r.counted

ConvEffects(op, sender, r) == Effects(op, sender, r.status, r.code, none, r.events, none)

SendMessage(c, sender, encrypted_content_blob_id, content_hash) ==
    /\ c \in DOMAIN convs
    /\ LET r == send_message(convs[c], sender, encrypted_content_blob_id, content_hash, clock)
       IN  /\ ApplyConv(c, r)
           /\ tx' = ConvEffects("send_message", sender, r)
    /\ UNCHANGED <<conversations, ids_created, clock, inflight, marking, pipeline>>

SendMessageWithMedia(c, sender, encrypted_content_blob_id, content_hash, media_blob_id) ==
    /\ c \in DOMAIN convs
    /\ LET r == send_message_with_media(convs[c], sender, encrypted_content_blob_id,
                                        content_hash, media_blob_id, clock)
       IN  /\ ApplyConv(c, r)
           /\ tx' = ConvEffects("send_message_with_media", sender, r)
    /\ UNCHANGED <<conversations, ids_created, clock, inflight, marking, pipeline>>

\* ---------------------------------------------------- mark_messages_as_read
\* vector::borrow_mut aborts on an index past the end; the helper's result says so.
RECURSIVE mark_messages_as_read_helper(_, _, _, _)
mark_messages_as_read_helper(messages, reader, index, end_index) ==
    IF index >= end_index
    THEN [in_bounds |-> TRUE, messages |-> messages]
    ELSE IF ~(index + 1 \in DOMAIN messages)
    THEN [in_bounds |-> FALSE, messages |-> messages]
    ELSE
    LET message == messages[index + 1]
        marked == IF message.sender # reader
                  THEN [messages EXCEPT ![index + 1].is_read = TRUE]
                  ELSE messages
    IN  mark_messages_as_read_helper(marked, reader, index + 1, end_index)

\* Faulty variant: the messages past the marked range are dropped.
mark_messages_as_read_drop(conversation, reader, up_to_index) ==
    IF ~(reader = conversation.participant1 \/ reader = conversation.participant2)
    THEN ConvOutcome("abort", ENotParticipant, conversation, <<>>, 0)
    ELSE
    LET messages_length == Len(conversation.messages)
        end_index == IF up_to_index >= messages_length
                     THEN messages_length
                     ELSE up_to_index + 1
        marked == mark_messages_as_read_helper(conversation.messages, reader, 0, end_index)
    IN  ConvOutcome("success", 0,
                    [conversation EXCEPT !.messages = SubSeq(marked.messages, 1, end_index)],
                    <<>>, 0)

\* Faulty variant: the reader's own messages are marked as well.
mark_messages_as_read_all(conversation, reader, up_to_index) ==
    IF ~(reader = conversation.participant1 \/ reader = conversation.participant2)
    THEN ConvOutcome("abort", ENotParticipant, conversation, <<>>, 0)
    ELSE
    LET messages_length == Len(conversation.messages)
        end_index == IF up_to_index >= messages_length
                     THEN messages_length
                     ELSE up_to_index + 1
        marked == [k \in 1..messages_length |->
                      IF k <= end_index
                      THEN [conversation.messages[k] EXCEPT !.is_read = TRUE]
                      ELSE conversation.messages[k]]
    IN  ConvOutcome("success", 0, [conversation EXCEPT !.messages = marked], <<>>, 0)

\* Faulty variant: is_read is flipped instead of set.
mark_messages_as_read_toggle(conversation, reader, up_to_index) ==
    IF ~(reader = conversation.participant1 \/ reader = conversation.participant2)
    THEN ConvOutcome("abort", ENotParticipant, conversation, <<>>, 0)
    ELSE
    LET messages_length == Len(conversation.messages)
        end_index == IF up_to_index >= messages_length
                     THEN messages_length
                     ELSE up_to_index + 1
        flipped == [k \in 1..messages_length |->
                       IF k <= end_index /\ conversation.messages[k].sender # reader
                       THEN [conversation.messages[k] EXCEPT !.is_read = ~@]
                       ELSE conversation.messages[k]]
    IN  ConvOutcome("success", 0, [conversation EXCEPT !.messages = flipped], <<>>, 0)

\* Faulty variant: the end bound is up_to_index + 1 without the clamp to the length.
mark_messages_as_read_unclamped(conversation, reader, up_to_index) ==
    IF ~(reader = conversation.participant1 \/ reader = conversation.participant2)
    THEN ConvOutcome("abort", ENotParticipant, conversation, <<>>, 0)
    ELSE
    LET overflow == up_to_index + 1 > MAX_U64
        end_index == up_to_index + 1
        h == mark_messages_as_read_helper(conversation.messages, reader, 0, end_index)
    IN  IF overflow
        THEN ConvOutcome("abort_arithmetic", 0, conversation, <<>>, 0)
        ELSE IF ~h.in_bounds
        THEN ConvOutcome("abort_vector", 0, conversation, <<>>, 0)
        ELSE ConvOutcome("success", 0, [conversation EXCEPT !.messages = h.messages],
                         <<>>, 0)

\* Faulty variant: the participant assertion is missing.
mark_messages_as_read_open(conversation, reader, up_to_index) ==
    LET messages_length == Len(conversation.messages)
        end_index == IF up_to_index >= messages_length
                     THEN messages_length
                     ELSE up_to_index + 1
        h == mark_messages_as_read_helper(conversation.messages, reader, 0, end_index)
    IN  ConvOutcome("success", 0, [conversation EXCEPT !.messages = h.messages], <<>>, 0)

\* Faulty variant: the end bound is up_to_index itself, not up_to_index + 1.
mark_messages_as_read_exclusive(conversation, reader, up_to_index) ==
    IF ~(reader = conversation.participant1 \/ reader = conversation.participant2)
    THEN ConvOutcome("abort", ENotParticipant, conversation, <<>>, 0)
    ELSE
    LET messages_length == Len(conversation.messages)
        end_index == IF up_to_index >= messages_length
                     THEN messages_length
                     ELSE up_to_index
        h == mark_messages_as_read_helper(conversation.messages, reader, 0, end_index)
    IN  ConvOutcome("success", 0, [conversation EXCEPT !.messages = h.messages], <<>>, 0)

mark_messages_as_read(conversation, reader, up_to_index) ==
    IF ~(reader = conversation.participant1 \/ reader = conversation.participant2)
    THEN ConvOutcome("abort", ENotParticipant, conversation, <<>>, 0)
    ELSE
    LET messages_length == Len(conversation.messages)
        overflow == ~(up_to_index >= messages_length) /\ up_to_index + 1 > MAX_U64
        end_index == IF up_to_index >= messages_length
                     THEN messages_length
                     ELSE up_to_index + 1
        h == mark_messages_as_read_helper(conversation.messages, reader, 0, end_index)
    IN  IF overflow
        THEN ConvOutcome("abort_arithmetic", 0, conversation, <<>>, 0)
        ELSE IF ~h.in_bounds
        THEN ConvOutcome("abort_vector", 0, conversation, <<>>, 0)
        ELSE ConvOutcome("success", 0, [conversation EXCEPT !.messages = h.messages],
                         <<>>, 0)

MarkMessagesAsRead(c, reader, up_to_index) ==
    /\ c \in DOMAIN convs
    /\ LET r == mark_messages_as_read(convs[c], reader, up_to_index)
       IN  /\ ApplyConv(c, r)
           /\ tx' = ConvEffects("mark_messages_as_read", reader, r)
    /\ UNCHANGED <<conversations, ids_created, clock, inflight, marking, pipeline>>

\* get_conversation_id: a read-only call; only its return value is observable.
GetConversationId(user1, user2) ==
    /\ tx' = Effects("get_conversation_id", "", "success", 0, none, <<>>,
                     some(get_conversation_id(conversations, user1, user2)))
    /\ UNCHANGED <<conversations, convs, ids_created, total_messages, clock, inflight, marking, pipeline>>

\* The Clock object advances between transactions.
Tick ==
    /\ clock' = clock + 1
    /\ UNCHANGED <<conversations, convs, ids_created, total_messages, tx, inflight, marking, pipeline>>

\* ------------------------------------------------------------ the ledger
\* Spec: every entry function, called by anyone with any argument.  Work counts the
\* conversations created, the messages sent and the clock ticks of the run.
Work == ids_created + total_messages + clock

Next ==
    \/ Work < MaxWork /\ Tick
    \/ \E sender, other_user \in Addr :
           /\ start_conversation(conversations, sender, other_user, clock,
                                 ids_created + 1).shared # none => Work < MaxWork
           /\ StartConversation(sender, other_user)
    \/ \E user1, user2 \in Addr : GetConversationId(user1, user2)
    \/ \E c \in DOMAIN convs, sender \in Addr, b \in BlobIds, h \in Hashes :
           /\ Work < MaxWork
           /\ SendMessage(c, sender, b, h)
    \/ \E c \in DOMAIN convs, sender \in Addr, b \in BlobIds, h \in Hashes, m \in MediaIds :
           /\ Work < MaxWork
           /\ SendMessageWithMedia(c, sender, b, h, m)
    \/ \E c \in DOMAIN convs, reader \in Addr, i \in UpToIndices :
           MarkMessagesAsRead(c, reader, i)

Spec == Init /\ [][Next]_vars

\* LedgerSpec: one conversation, opened by 0xaa with 0xbb at time 0, and the calls on
\* it; 0xcc is the outsider.
LedgerInit ==
    LET r == start_conversation(table_new, "0xaa", "0xbb", 0, 1)
    IN  /\ conversations = r.registry
        /\ convs = (r.shared[1].id :> r.shared[1])
        /\ ids_created = 1
        /\ total_messages = 0
        /\ clock = 0
        /\ tx = StartEffects("0xaa", r)
        /\ inflight = [slot \in 1..MaxInflight |-> Idle]
        /\ marking = NoMarking
        /\ walrus = << >>
        /\ client = NoCall
        /\ sealed = << >>

LedgerWork == total_messages + clock

LedgerNext ==
    \/ LedgerWork < MaxLedgerWork /\ Tick
    \/ \E c \in DOMAIN convs, sender \in Addr, b \in BlobIds, h \in Hashes :
           /\ LedgerWork < MaxLedgerWork
           /\ SendMessage(c, sender, b, h)
    \/ \E c \in DOMAIN convs, sender \in Addr, b \in BlobIds, h \in Hashes, m \in MediaIds :
           /\ LedgerWork < MaxLedgerWork
           /\ SendMessageWithMedia(c, sender, b, h, m)
    \/ \E c \in DOMAIN convs, reader \in Addr, i \in UpToIndices :
           MarkMessagesAsRead(c, reader, i)

LedgerSpec == LedgerInit /\ [][LedgerNext]_vars

\* FrameSpec: two conversations, opened by 0xaa with 0xbb and with 0xcc at time 0, and
\* sends with valid arguments and marks on either, by its participants.
FrameInit ==
    LET first == start_conversation(table_new, "0xaa", "0xbb", 0, 1)
        second == start_conversation(first.registry, "0xaa", "0xcc", 0, 2)
    IN  /\ conversations = second.registry
        /\ convs = (first.shared[1].id :> first.shared[1])
                       @@ (second.shared[1].id :> second.shared[1])
        /\ ids_created = 2
        /\ total_messages = 0
        /\ clock = 0
        /\ tx = StartEffects("0xaa", second)
        /\ inflight = [slot \in 1..MaxInflight |-> Idle]
        /\ marking = NoMarking
        /\ walrus = << >>
        /\ client = NoCall
        /\ sealed = << >>

FrameNext ==
    \/ LedgerWork < MaxLedgerWork /\ Tick
    \/ \E c \in DOMAIN convs :
           \E sender \in {convs[c].participant1, convs[c].participant2} :
               /\ LedgerWork < MaxLedgerWork
               /\ \/ SendMessage(c, sender, <<"b", "1">>, <<171>>)
                  \/ SendMessageWithMedia(c, sender, <<"b", "1">>, <<171>>, <<"m">>)
    \/ \E c \in DOMAIN convs :
           \E reader \in {convs[c].participant1, convs[c].participant2}, i \in UpToIndices :
               MarkMessagesAsRead(c, reader, i)

FrameSpec == FrameInit /\ [][FrameNext]_vars

\* IndexSpec: the registry alone; every pair of addresses may open its conversation.
IndexNext ==
    \/ clock < MaxClock /\ Tick
    \/ \E sender, other_user \in Addr : StartConversation(sender, other_user)
    \/ \E user1, user2 \in Addr : GetConversationId(user1, user2)

IndexSpec == Init /\ [][IndexNext]_vars

\* ConcSpec: start_conversation transactions are submitted by their senders, stay in
\* flight together, and are executed one at a time in whatever order the shared
\* registry's transaction ordering picks.
\* Slots are taken in submission order.
Submit(slot, sender, other_user) ==
    /\ inflight[slot].state = "none"
    /\ \A earlier \in 1..(slot - 1) : inflight[earlier].state # "none"
    /\ inflight' = [inflight EXCEPT ![slot] =
                        [state |-> "submitted", sender |-> sender, other_user |-> other_user]]
    /\ UNCHANGED <<conversations, convs, ids_created, total_messages, clock, tx, marking, pipeline>>

Execute(slot) ==
    /\ inflight[slot].state = "submitted"
    /\ LET sender == inflight[slot].sender
           other_user == inflight[slot].other_user
           r == start_conversation(conversations, sender, other_user, clock, ids_created + 1)
       IN  /\ ApplyStart(r)
           /\ tx' = StartEffects(sender, r)
           /\ inflight' = [inflight EXCEPT ![slot] =
                               [state |-> "executed", sender |-> sender,
                                other_user |-> other_user,
                                effects |-> StartEffects(sender, r),
                                overlapped |-> {o \in 1..MaxInflight :
                                                   inflight[o].state = "submitted"} \ {slot}]]
    /\ UNCHANGED <<total_messages, clock, marking, pipeline>>

ConcNext ==
    \/ clock < MaxClock /\ Tick
    \/ \E slot \in 1..MaxInflight, sender, other_user \in Addr : Submit(slot, sender, other_user)
    \/ \E slot \in 1..MaxInflight : Execute(slot)

ConcSpec == Init /\ [][ConcNext]_vars

\* ConcSendSpec: send_message and send_message_with_media transactions on the one
\* conversation of LedgerInit are submitted by their senders, stay in flight
\* together, and are executed one at a time in whatever order the shared object's
\* transaction ordering picks, the clock advancing in between.
SubmitSend(slot, c, op, sender, encrypted_content_blob_id, content_hash, media_blob_id) ==
    /\ inflight[slot].state = "none"
    /\ \A earlier \in 1..(slot - 1) : inflight[earlier].state # "none"
    /\ c \in DOMAIN convs
    /\ inflight' = [inflight EXCEPT ![slot] =
                        [state |-> "submitted", op |-> op, conversation |-> c,
                         sender |-> sender,
                         encrypted_content_blob_id |-> encrypted_content_blob_id,
                         content_hash |-> content_hash,
                         media_blob_id |-> media_blob_id]]
    /\ UNCHANGED <<conversations, convs, ids_created, total_messages, clock, tx, marking, pipeline>>

\* The slot's transaction commits: `position` is the length of the message vector
\* and `timestamp_ms` the clock as of the commit.
ExecuteSend(slot) ==
    /\ inflight[slot].state = "submitted"
    /\ LET t == inflight[slot]
           r == IF t.op = "send_message"
                THEN send_message(convs[t.conversation], t.sender,
                                  t.encrypted_content_blob_id, t.content_hash, clock)
                ELSE send_message_with_media(convs[t.conversation], t.sender,
                                             t.encrypted_content_blob_id, t.content_hash,
                                             t.media_blob_id, clock)
       IN  /\ ApplyConv(t.conversation, r)
           /\ tx' = ConvEffects(t.op, t.sender, r)
           /\ inflight' = [inflight EXCEPT ![slot] =
                               [state |-> "executed", op |-> t.op,
                                conversation |-> t.conversation, sender |-> t.sender,
                                encrypted_content_blob_id |-> t.encrypted_content_blob_id,
                                content_hash |-> t.content_hash,
                                media_blob_id |-> t.media_blob_id,
                                effects |-> ConvEffects(t.op, t.sender, r),
                                timestamp_ms |-> clock,
                                position |-> Len(r.conversation.messages),
                                overlapped |-> {o \in 1..MaxInflight :
                                                   inflight[o].state = "submitted"} \ {slot}]]
    /\ UNCHANGED <<conversations, ids_created, clock, marking, pipeline>>

ConcSendNext ==
    \/ clock < MaxClock /\ Tick
    \/ \E slot \in 1..MaxInflight, c \in DOMAIN convs, sender \in Addr, b \in BlobIds :
           \/ SubmitSend(slot, c, "send_message", sender, b, <<171>>, <<>>)
           \/ SubmitSend(slot, c, "send_message_with_media", sender, b, <<171>>, <<"m">>)
    \/ \E slot \in 1..MaxInflight : ExecuteSend(slot)

ConcSendSpec == LedgerInit /\ [][ConcSendNext]_vars

\* -------------------------------- mark_messages_as_read, one call at a time
\* Faulty variant: the recursive call is made with the same index.
mark_messages_as_read_helper_activation_same_index(messages, reader, index, end_index) ==
    IF index >= end_index
    THEN [returns |-> TRUE, in_bounds |-> TRUE, messages |-> messages,
          index |-> index, end_index |-> end_index]
    ELSE IF ~(index + 1 \in DOMAIN messages)
    THEN [returns |-> TRUE, in_bounds |-> FALSE, messages |-> messages,
          index |-> index, end_index |-> end_index]
    ELSE
    LET message == messages[index + 1]
        marked == IF message.sender # reader
                  THEN [messages EXCEPT ![index + 1].is_read = TRUE]
                  ELSE messages
    IN  [returns |-> FALSE, in_bounds |-> TRUE, messages |-> marked,
         index |-> index, end_index |-> end_index]

\* One activation of mark_messages_as_read_helper, up to its return or its recursive
\* call: returns says that it returned, in_bounds that vector::borrow_mut found the
\* index, and index, end_index are the arguments of the call it makes.
mark_messages_as_read_helper_activation(messages, reader, index, end_index) ==
    IF index >= end_index
    THEN [returns |-> TRUE, in_bounds |-> TRUE, messages |-> messages,
          index |-> index, end_index |-> end_index]
    ELSE IF ~(index + 1 \in DOMAIN messages)
    THEN [returns |-> TRUE, in_bounds |-> FALSE, messages |-> messages,
          index |-> index, end_index |-> end_index]
    ELSE
    LET message == messages[index + 1]
        marked == IF message.sender # reader
                  THEN [messages EXCEPT ![index + 1].is_read = TRUE]
                  ELSE messages
    IN  [returns |-> FALSE, in_bounds |-> TRUE, messages |-> marked,
         index |-> index + 1, end_index |-> end_index]

\* The transaction starts: the participant assertion, end_index, and the first call
\* of the helper, with index 0.
CallMarkMessagesAsRead(c, reader, up_to_index) ==
    /\ marking.state \in {"idle", "done"}
    /\ c \in DOMAIN convs
    /\ LET conversation == convs[c]
           messages_length == Len(conversation.messages)
           end_index == IF up_to_index >= messages_length
                        THEN messages_length
                        ELSE up_to_index + 1
       IN  IF ~(reader = conversation.participant1 \/ reader = conversation.participant2)
           THEN /\ tx' = ConvEffects("mark_messages_as_read", reader,
                                     ConvOutcome("abort", ENotParticipant, conversation,
                                                 <<>>, 0))
                /\ marking' = NoMarking
           ELSE /\ marking' = [state |-> "running", conversation |-> c, reader |-> reader,
                               up_to_index |-> up_to_index,
                               messages |-> conversation.messages,
                               stack |-> <<[index |-> 0, end_index |-> end_index]>>,
                               visited |-> <<>>]
                /\ UNCHANGED tx
    /\ UNCHANGED <<conversations, convs, ids_created, total_messages, clock, inflight, pipeline>>

\* The innermost activation of the helper runs up to its recursive call or its return.
HelperStep ==
    /\ marking.state = "running"
    /\ LET frame == marking.stack[Len(marking.stack)]
           a == mark_messages_as_read_helper_activation(marking.messages, marking.reader,
                                                        frame.index, frame.end_index)
       IN  IF ~a.in_bounds
           THEN /\ marking' = [marking EXCEPT !.state = "aborted", !.stack = <<>>]
                /\ tx' = ConvEffects("mark_messages_as_read", marking.reader,
                                     ConvOutcome("abort_vector", 0,
                                                 convs[marking.conversation], <<>>, 0))
           ELSE IF a.returns
           THEN /\ marking' = [marking EXCEPT
                                   !.state = "returning",
                                   !.stack = SubSeq(@, 1, Len(@) - 1)]
                /\ UNCHANGED tx
           ELSE /\ marking' = [marking EXCEPT
                                   !.messages = a.messages,
                                   !.visited = Append(@, frame.index),
                                   !.stack = Append(@, [index |-> a.index,
                                                        end_index |-> a.end_index])]
                /\ UNCHANGED tx
    /\ UNCHANGED <<conversations, convs, ids_created, total_messages, clock, inflight, pipeline>>

\* An activation whose recursive call has returned returns in turn; when
\* mark_messages_as_read itself returns, the transaction's writes are committed.
HelperReturn ==
    /\ marking.state = "returning"
    /\ IF marking.stack # <<>>
       THEN /\ marking' = [marking EXCEPT !.stack = SubSeq(@, 1, Len(@) - 1)]
            /\ UNCHANGED <<convs, total_messages, tx>>
       ELSE LET c == marking.conversation
                r == ConvOutcome("success", 0,
                                 [convs[c] EXCEPT !.messages = marking.messages], <<>>, 0)
            IN  /\ ApplyConv(c, r)
                /\ tx' = ConvEffects("mark_messages_as_read", marking.reader, r)
                /\ marking' = [marking EXCEPT !.state = "done"]
    /\ UNCHANGED <<conversations, ids_created, clock, inflight, pipeline>>

\* HelperSpec: the conversation of LedgerSpec; its participants send, and anyone's
\* mark_messages_as_read is executed one helper call at a time.  A transaction is
\* executed alone, and the virtual machine runs it to its end.
HelperNext ==
    \/ /\ marking.state \in {"idle", "done"}
       /\ \/ LedgerWork < MaxLedgerWork /\ Tick
          \/ \E c \in DOMAIN convs :
                 \E sender \in {convs[c].participant1, convs[c].participant2} :
                     /\ LedgerWork < MaxLedgerWork
                     /\ SendMessage(c, sender, <<"b", "1">>, <<171>>)
          \/ \E c \in DOMAIN convs, reader \in Addr, up_to_index \in UpToIndices :
                 CallMarkMessagesAsRead(c, reader, up_to_index)
    \/ HelperStep
    \/ HelperReturn

HelperSpec ==
    LedgerInit /\ [][HelperNext]_vars /\ WF_vars(HelperStep) /\ WF_vars(HelperReturn)

\* ============================================= utils/messageEncryption.ts
\* A JavaScript string is its sequence of UTF-16 code units, a Uint8Array its
\* sequence of bytes.

IsHighSurrogate(c) == c \in 55296..56319
IsLowSurrogate(c) == c \in 56320..57343

\* The UTF-8 bytes of one code point.
utf8_bytes(cp) ==
    IF cp < 128 THEN <<cp>>
    ELSE IF cp < 2048 THEN <<192 + (cp \div 64), 128 + (cp % 64)>>
    ELSE IF cp < 65536
    THEN <<224 + (cp \div 4096), 128 + ((cp \div 64) % 64), 128 + (cp % 64)>>
    ELSE <<240 + (cp \div 262144), 128 + ((cp \div 4096) % 64),
           128 + ((cp \div 64) % 64), 128 + (cp % 64)>>

\* new TextEncoder().encode(str): a surrogate pair is one code point, a lone
\* surrogate is encoded as U+FFFD.
RECURSIVE TextEncoder_encode(_)
TextEncoder_encode(str) ==
    IF str = <<>> THEN <<>>
    ELSE IF IsHighSurrogate(str[1]) /\ Len(str) > 1 /\ IsLowSurrogate(str[2])
    THEN utf8_bytes(65536 + (str[1] - 55296) * 1024 + (str[2] - 56320))
             \o TextEncoder_encode(SubSeq(str, 3, Len(str)))
    ELSE IF IsHighSurrogate(str[1]) \/ IsLowSurrogate(str[1])
    THEN utf8_bytes(65533) \o TextEncoder_encode(Tail(str))
    ELSE utf8_bytes(str[1]) \o TextEncoder_encode(Tail(str))

\* UTF-8 decoding to code units; a byte that starts no well-formed sequence becomes
\* U+FFFD.
RECURSIVE utf8_decode(_)
utf8_decode(bytes) ==
    IF bytes = <<>> THEN <<>>
    ELSE
    LET b == bytes[1]
        cont(k) == k <= Len(bytes) /\ bytes[k] \in 128..191
        rest(k) == utf8_decode(SubSeq(bytes, k, Len(bytes)))
        cp2 == (b - 192) * 64 + (bytes[2] - 128)
        cp3 == (b - 224) * 4096 + (bytes[2] - 128) * 64 + (bytes[3] - 128)
        cp4 == (b - 240) * 262144 + (bytes[2] - 128) * 4096
                   + (bytes[3] - 128) * 64 + (bytes[4] - 128)
    IN  IF b < 128 THEN <<b>> \o rest(2)
        ELSE IF b \in 194..223 /\ cont(2) THEN <<cp2>> \o rest(3)
        ELSE IF b \in 224..239 /\ cont(2) /\ cont(3)
                /\ cp3 >= 2048 /\ ~IsHighSurrogate(cp3) /\ ~IsLowSurrogate(cp3)
        THEN <<cp3>> \o rest(4)
        ELSE IF b \in 240..244 /\ cont(2) /\ cont(3) /\ cont(4)
                /\ cp4 >= 65536 /\ cp4 < 1114112
        THEN <<55296 + ((cp4 - 65536) \div 1024), 56320 + ((cp4 - 65536) % 1024)>> \o rest(5)
        ELSE <<65533>> \o rest(2)

\* new TextDecoder().decode(bytes): the default decoder (ignoreBOM false, fatal
\* false) drops a leading byte order mark EF BB BF and then decodes.
TextDecoder_decode(bytes) ==
    utf8_decode(IF Len(bytes) >= 3 /\ SubSeq(bytes, 1, 3) = <<239, 187, 191>>
                THEN SubSeq(bytes, 4, Len(bytes))
                ELSE bytes)

\* crypto.subtle.digest('SHA-256', bytes): 32 bytes, no two inputs of the model with
\* the same digest.
sha256(bytes) ==
    [k \in 1..32 |-> IF k <= Len(bytes) THEN bytes[k]
                     ELSE IF k = 32 THEN Len(bytes) ELSE 0]

\* x < y on strings: by UTF-16 code units, a proper prefix first.
RECURSIVE string_less(_, _)
string_less(x, y) ==
    IF y = <<>> THEN FALSE
    ELSE IF x = <<>> THEN TRUE
    ELSE IF x[1] # y[1] THEN x[1] < y[1]
    ELSE string_less(Tail(x), Tail(y))

RECURSIVE array_insert(_, _)
array_insert(sorted, x) ==
    IF sorted = <<>> THEN <<x>>
    ELSE IF string_less(x, sorted[1]) THEN <<x>> \o sorted
    ELSE <<sorted[1]>> \o array_insert(Tail(sorted), x)

\* Array.prototype.sort() without a comparator: ascending by code units, stable.
RECURSIVE array_sort(_)
array_sort(array) ==
    IF array = <<>> THEN <<>>
    ELSE array_insert(array_sort(SubSeq(array, 1, Len(array) - 1)), array[Len(array)])

RECURSIVE array_join(_, _)
array_join(array, separator) ==
    IF array = <<>> THEN <<>>
    ELSE IF Len(array) = 1 THEN array[1]
    ELSE array[1] \o separator \o array_join(Tail(array), separator)

\* b.toString(16): the code unit of a hexadecimal digit, '0'..'9' then 'a'..'f'.
hex_digit(n) == IF n < 10 THEN 48 + n ELSE 87 + n

\* Array.from(bytes).map(b => b.toString(16).padStart(2, '0')).join('')
RECURSIVE to_hex(_)
to_hex(bytes) ==
    IF bytes = <<>> THEN <<>>
    ELSE <<hex_digit(bytes[1] \div 16), hex_digit(bytes[1] % 16)>> \o to_hex(Tail(bytes))

\* Faulty variant: the conversation id is left out of the identity.
createConversationIdentity_participants_only(conversationId, participants) ==
    LET sortedParticipants == array_sort(participants)
        identityData == array_join(sortedParticipants, <<45>>)
        bytes == TextEncoder_encode(identityData)
    IN  [identity |-> to_hex(bytes), participants |-> sortedParticipants]

\* Faulty variant: the participants are joined in the order given.
createConversationIdentity_unsorted(conversationId, participants) ==
    LET identityData == conversationId \o <<45>> \o array_join(participants, <<45>>)
        bytes == TextEncoder_encode(identityData)
    IN  [identity |-> to_hex(bytes), participants |-> participants]

\* createConversationIdentity: the identity string, and the caller's array as
\* participants.sort() leaves it (the sort is in place).
createConversationIdentity(conversationId, participants) ==
    LET sortedParticipants == array_sort(participants)
        identityData == conversationId \o <<45>> \o array_join(sortedParticipants, <<45>>)
        bytes == TextEncoder_encode(identityData)
    IN  [identity |-> to_hex(bytes), participants |-> sortedParticipants]

createSessionKey(identity) == [packageId |-> "PACKAGE_ID", identity |-> identity]

\* createDecryptTransaction: 64 bytes that repeat the bytes of `decrypt-${identity}`.
createDecryptTransaction(identity) ==
    LET txData == TextEncoder_encode(<<100, 101, 99, 114, 121, 112, 116, 45>> \o identity)
    IN  [i \in 1..64 |-> txData[((i - 1) % Len(txData)) + 1]]

\* Faulty variant: the lengths are not compared, so an expectedHash that extends the
\* digest is accepted.
verifyMessageHash_nolength(messageContent, expectedHash) ==
    LET messageBytes == TextEncoder_encode(messageContent)
        actualHash == sha256(messageBytes)
    IN  \A i \in 1..Len(actualHash) :
            i <= Len(expectedHash) /\ actualHash[i] = expectedHash[i]

verifyMessageHash(messageContent, expectedHash) ==
    LET messageBytes == TextEncoder_encode(messageContent)
        actualHash == sha256(messageBytes)
    IN  IF Len(actualHash) # Len(expectedHash)
        THEN FALSE
        ELSE \A i \in 1..Len(actualHash) : actualHash[i] = expectedHash[i]

\* ---------------------------------------------------- the external services
\* sealClient.encrypt({threshold, packageId, id, data}).encryptedObject: bytes that
\* carry the identity they are sealed to and give up data only to sealClient.decrypt.
seal_encrypt(id, data) ==
    [threshold |-> 2, packageId |-> "PACKAGE_ID", id |-> id, data |-> data]

\* sealClient.decrypt releases the data to a session key for the identity the bytes
\* are sealed to.
seal_authorized(encryptedBytes, finalSessionKey) ==
    finalSessionKey.identity = encryptedBytes.id

\* ------------------------------------------------------ pipeline inputs
\* 'a', U+FEFF and a high surrogate with no low surrogate after it.
CodeUnits == {97, 65279, 55296}
MessageContents == UNION {[1..n -> CodeUnits] : n \in 0..MaxChars}
\* "c", "d", "c-b"
ConversationIds == {<<99>>, <<100>>, <<99, 45, 98>>}
\* arrays of two of "b", "ab", "b-b"
ParticipantArrays == [1..2 -> {<<98>>, <<97, 98>>, <<98, 45, 98>>}]
MediaFiles == {[bytes |-> <<>>, type |-> ""], [bytes |-> <<137, 80>>, type |-> "image/png"]}
MimeTypes == {none, some("image/png")}
\* What a blob that was tampered with decrypts to: the bytes of "b".
TamperedData == {<<98>>}
\* Digests of the messages, each also cut by a byte and extended by a byte, and
\* the empty array.
ExpectedHashes ==
    LET digests == {sha256(TextEncoder_encode(m)) : m \in MessageContents}
    IN  digests \cup {SubSeq(d, 1, Len(d) - 1) : d \in digests}
                \cup {d \o <<0>> : d \in digests} \cup {<<>>}

\* ------------------------------------------------------------ the calls
\* The client makes one call after another.
CanCall == client.pc \in {"idle", "returned", "thrown"}

\* The Error each function's catch block throws.
Failure(fn) ==
    CASE fn = "encryptAndUploadMessage" -> "Failed to encrypt and upload message"
      [] fn = "encryptAndUploadMedia" -> "Failed to encrypt and upload media"
      [] fn = "decryptMessage" -> "Failed to decrypt message"
      [] fn = "decryptMedia" -> "Failed to decrypt media"

\* encryptAndUploadMessage up to its await of sealClient.encrypt.
encryptAndUploadMessage(messageContent, conversationId, participants) ==
    /\ CanCall
    /\ LET messageBytes == TextEncoder_encode(messageContent)
           contentHash == sha256(messageBytes)
           derived == createConversationIdentity(conversationId, participants)
       IN  client' = [NoCall EXCEPT !.fn = "encryptAndUploadMessage",
                                    !.pc = "sealClient.encrypt",
                                    !.payload = messageContent,
                                    !.data = messageBytes,
                                    !.conversationId = conversationId,
                                    !.participants = derived.participants,
                                    !.participantsAtCall = participants,
                                    !.contentHash = contentHash,
                                    !.identity = derived.identity]
    /\ UNCHANGED <<ledger, walrus, sealed>>

\* encryptAndUploadMedia up to its await of sealClient.encrypt.
encryptAndUploadMedia(mediaFile, conversationId, participants) ==
    /\ CanCall
    /\ LET fileBytes == mediaFile.bytes
           derived == createConversationIdentity(conversationId, participants)
       IN  client' = [NoCall EXCEPT !.fn = "encryptAndUploadMedia",
                                    !.pc = "sealClient.encrypt",
                                    !.payload = mediaFile,
                                    !.data = fileBytes,
                                    !.conversationId = conversationId,
                                    !.participants = derived.participants,
                                    !.participantsAtCall = participants,
                                    !.identity = derived.identity]
    /\ UNCHANGED <<ledger, walrus, sealed>>

\* sealClient.encrypt resolves: the call goes on to the upload.
SealEncryptResolves ==
    /\ client.pc = "sealClient.encrypt"
    /\ client' = [client EXCEPT !.encryptedBytes = seal_encrypt(client.identity, client.data),
                                !.log = Append(@, "sealClient.encrypt"),
                                !.pc = "WalrusService.uploadFile"]
    /\ UNCHANGED <<ledger, walrus, sealed>>

\* sealClient.encrypt rejects: the catch block rethrows.
SealEncryptRejects ==
    /\ client.pc = "sealClient.encrypt"
    /\ client' = [client EXCEPT !.log = Append(@, "sealClient.encrypt"),
                                !.pc = "thrown",
                                !.result = Failure(client.fn)]
    /\ UNCHANGED <<ledger, walrus, sealed>>

\* WalrusService.uploadFile resolves with the id of the stored blob; the function
\* returns.
WalrusUploadResolves ==
    /\ client.pc = "WalrusService.uploadFile"
    /\ LET blobId == Cardinality(DOMAIN walrus) + 1
           result == IF client.fn = "encryptAndUploadMessage"
                     THEN [blobId |-> blobId, contentHash |-> client.contentHash]
                     ELSE blobId
       IN  /\ walrus' = walrus @@ (blobId :> client.encryptedBytes)
           /\ client' = [client EXCEPT !.log = Append(@, "WalrusService.uploadFile"),
                                       !.pc = "returned",
                                       !.blobId = blobId,
                                       !.result = result]
           /\ sealed' = sealed @@ (blobId :>
                            [fn |-> client.fn, payload |-> client.payload,
                             conversationId |-> client.conversationId,
                             participants |-> client.participantsAtCall,
                             identity |-> client.identity,
                             encryptedBytes |-> client.encryptedBytes,
                             result |-> result])
    /\ UNCHANGED ledger

\* Faulty variant: a failed upload is tried again.
WalrusUploadRejects_retry ==
    /\ client.pc = "WalrusService.uploadFile"
    /\ Len(client.log) < 3
    /\ client' = [client EXCEPT !.log = Append(@, "WalrusService.uploadFile")]
    /\ UNCHANGED <<ledger, walrus, sealed>>

\* WalrusService.uploadFile rejects: the catch block rethrows.
WalrusUploadRejects ==
    /\ client.pc = "WalrusService.uploadFile"
    /\ client' = [client EXCEPT !.log = Append(@, "WalrusService.uploadFile"),
                                !.pc = "thrown",
                                !.result = Failure(client.fn)]
    /\ UNCHANGED <<ledger, walrus, sealed>>

\* decryptMessage up to its await of fetch.
decryptMessage(blobId, conversationId, participants, sessionKey, txBytes) ==
    /\ CanCall
    /\ client' = [NoCall EXCEPT !.fn = "decryptMessage",
                                !.pc = "fetch",
                                !.blobId = blobId,
                                !.conversationId = conversationId,
                                !.participants = participants,
                                !.participantsAtCall = participants,
                                !.sessionKey = sessionKey,
                                !.txBytes = txBytes]
    /\ UNCHANGED <<ledger, walrus, sealed>>

\* decryptMedia up to its await of fetch.
decryptMedia(blobId, conversationId, participants, originalMimeType, sessionKey, txBytes) ==
    /\ CanCall
    /\ client' = [NoCall EXCEPT !.fn = "decryptMedia",
                                !.pc = "fetch",
                                !.blobId = blobId,
                                !.conversationId = conversationId,
                                !.participants = participants,
                                !.participantsAtCall = participants,
                                !.originalMimeType = originalMimeType,
                                !.sessionKey = sessionKey,
                                !.txBytes = txBytes]
    /\ UNCHANGED <<ledger, walrus, sealed>>

\* fetch resolves with response.ok: the bytes stored under the blob id are read, the
\* identity is derived, the session key and the transaction bytes are made unless
\* the caller passed them, and the call goes on to sealClient.decrypt.
FetchResolves ==
    /\ client.pc = "fetch"
    /\ client.blobId \in DOMAIN walrus
    /\ LET derived == createConversationIdentity(client.conversationId, client.participants)
           finalSessionKey == IF client.sessionKey = none
                              THEN some(createSessionKey(derived.identity))
                              ELSE client.sessionKey
           finalTxBytes == IF client.txBytes = none
                           THEN some(createDecryptTransaction(derived.identity))
                           ELSE client.txBytes
       IN  client' = [client EXCEPT !.log = Append(@, "fetch"),
                                    !.encryptedBytes = walrus[client.blobId],
                                    !.identity = derived.identity,
                                    !.participants = derived.participants,
                                    !.finalSessionKey = finalSessionKey,
                                    !.finalTxBytes = finalTxBytes,
                                    !.pc = "sealClient.decrypt"]
    /\ UNCHANGED <<ledger, walrus, sealed>>

\* fetch rejects, or resolves with a response that is not ok (as for a blob id
\* Walrus does not hold): the catch block rethrows.
FetchFails ==
    /\ client.pc = "fetch"
    /\ client' = [client EXCEPT !.log = Append(@, "fetch"),
                                !.pc = "thrown",
                                !.result = Failure(client.fn)]
    /\ UNCHANGED <<ledger, walrus, sealed>>

\* sealClient.decrypt resolves with the data; the function converts and returns it.
SealDecryptResolves ==
    /\ client.pc = "sealClient.decrypt"
    /\ seal_authorized(client.encryptedBytes, client.finalSessionKey[1])
    /\ LET decryptedData == client.encryptedBytes.data
           mimeType == IF client.originalMimeType = none
                       THEN "application/octet-stream"
                       ELSE client.originalMimeType[1]
           result == IF client.fn = "decryptMessage"
                     THEN TextDecoder_decode(decryptedData)
                     ELSE [bytes |-> decryptedData, type |-> mimeType]
       IN  client' = [client EXCEPT !.log = Append(@, "sealClient.decrypt"),
                                    !.data = decryptedData,
                                    !.pc = "returned",
                                    !.result = result]
    /\ UNCHANGED <<ledger, walrus, sealed>>

\* sealClient.decrypt rejects (no authorization for the identity, or the key servers
\* fail): the catch block rethrows.
SealDecryptRejects ==
    /\ client.pc = "sealClient.decrypt"
    /\ client' = [client EXCEPT !.log = Append(@, "sealClient.decrypt"),
                                !.pc = "thrown",
                                !.result = Failure(client.fn)]
    /\ UNCHANGED <<ledger, walrus, sealed>>

\* The bytes Walrus holds under a blob id come to decrypt to something else.
Corrupt(blobId, data) ==
    /\ blobId \in DOMAIN walrus
    /\ walrus[blobId].data # data
    /\ walrus' = [walrus EXCEPT ![blobId].data = data]
    /\ UNCHANGED <<ledger, client, sealed>>

\* verifyMessageHash, which awaits nothing but the digest.
VerifyMessageHash(messageContent, expectedHash) ==
    /\ CanCall
    /\ client' = [NoCall EXCEPT !.fn = "verifyMessageHash",
                                !.pc = "returned",
                                !.payload = messageContent,
                                !.contentHash = expectedHash,
                                !.result = verifyMessageHash(messageContent, expectedHash)]
    /\ UNCHANGED <<ledger, walrus, sealed>>

\* ------------------------------------------------------- the pipeline specs
EncryptSteps ==
    \/ SealEncryptResolves
    \/ SealEncryptRejects
    \/ WalrusUploadResolves
    \/ WalrusUploadRejects

DecryptSteps ==
    \/ FetchResolves
    \/ FetchFails
    \/ SealDecryptResolves
    \/ SealDecryptRejects

\* Blob ids a caller may ask for: those Walrus holds and one it does not.
BlobRefs == DOMAIN walrus \cup {0}

\* PipelineSpec: one message of conversation "c" goes through the pipeline; every
\* text of MessageContents, both orders of the participants, decryption with and
\* without a session key and transaction bytes of the caller's, and tampering.
PipelineParticipants == {<<<<98>>, <<97, 98>>>>, <<<<97, 98>>, <<98>>>>}
PipelineSessionKeys ==
    {none} \cup {some(createSessionKey(createConversationIdentity(c, <<<<98>>, <<97, 98>>>>).identity)) :
                    c \in ConversationIds}
PipelineTxBytes ==
    {none, some(createDecryptTransaction(createConversationIdentity(<<99>>, <<<<98>>, <<97, 98>>>>).identity))}

PipelineNext ==
    \/ \E messageContent \in MessageContents, participants \in PipelineParticipants :
           /\ DOMAIN walrus = {}
           /\ encryptAndUploadMessage(messageContent, <<99>>, participants)
    \/ EncryptSteps
    \/ \E blobId \in BlobRefs, participants \in PipelineParticipants,
          sessionKey \in PipelineSessionKeys, txBytes \in PipelineTxBytes :
           decryptMessage(blobId, <<99>>, participants, sessionKey, txBytes)
    \/ DecryptSteps
    \/ \E blobId \in DOMAIN walrus, data \in TamperedData : Corrupt(blobId, data)

PipelineSpec == Init /\ [][PipelineNext]_vars

\* IdentitySpec: the four functions on one text and one file, for every conversation
\* id and every participants array.
IdentityNext ==
    \/ \E conversationId \in ConversationIds, participants \in ParticipantArrays :
           /\ DOMAIN walrus = {}
           /\ \/ encryptAndUploadMessage(<<97>>, conversationId, participants)
              \/ \E mediaFile \in MediaFiles :
                     encryptAndUploadMedia(mediaFile, conversationId, participants)
    \/ EncryptSteps
    \/ \E blobId \in BlobRefs, conversationId \in ConversationIds,
          participants \in ParticipantArrays :
           \/ decryptMessage(blobId, conversationId, participants, none, none)
           \/ \E originalMimeType \in MimeTypes :
                  decryptMedia(blobId, conversationId, participants, originalMimeType,
                               none, none)
    \/ DecryptSteps

IdentitySpec == Init /\ [][IdentityNext]_vars

\* DigestSpec: encryptAndUploadMessage and verifyMessageHash on every text.
DigestNext ==
    \/ \E messageContent \in MessageContents :
           /\ DOMAIN walrus = {}
           /\ encryptAndUploadMessage(messageContent, <<99>>, <<<<98>>, <<97, 98>>>>)
    \/ EncryptSteps
    \/ \E messageContent \in MessageContents, expectedHash \in ExpectedHashes :
           VerifyMessageHash(messageContent, expectedHash)

DigestSpec == Init /\ [][DigestNext]_vars

\* =================================================================== claims
Participants(conversation) == {conversation.participant1, conversation.participant2}

\* C1: for A # B, start_conversation by A with B always succeeds and leaves a
\* conversation that get_conversation_id finds under both argument orders with the
\* same id; it creates one exactly when the pair had none; and a following
\* start_conversation by B with A creates nothing and resolves to that same id.
C1_SameConversationEitherOrder ==
    [][\A a, b \in Addr : a # b =>
          /\ (tx'.op = "start_conversation" /\ StartConversation(a, b)) =>
                /\ tx'.status = "success"
                /\ (tx'.created # none) <=> ~conversation_exists(conversations, a, b)
                /\ get_conversation_id(conversations', a, b) # none
                /\ get_conversation_id(conversations', b, a)
                       = get_conversation_id(conversations', a, b)
                /\ tx'.created # none =>
                       get_conversation_id(conversations', a, b) = tx'.created
          /\ (/\ tx'.op = "start_conversation"
              /\ get_conversation_id(conversations, a, b) # none
              /\ StartConversation(b, a)) =>
                /\ tx'.status = "success"
                /\ tx'.created = none
                /\ get_conversation_id(conversations', b, a)
                       = get_conversation_id(conversations, a, b)
                /\ get_conversation_id(conversations', a, b)
                       = get_conversation_id(conversations, a, b)
      ]_vars

\* 0xaa opened the only conversation with 0xbb, and 0xbb's start_conversation has
\* just returned without creating one.
C1_Witness ==
    /\ DOMAIN convs = {1}
    /\ convs[1].participant1 = "0xaa" /\ convs[1].participant2 = "0xbb"
    /\ tx.op = "start_conversation" /\ tx.sender = "0xbb"
    /\ tx.status = "success" /\ tx.created = none
    /\ get_conversation_id(conversations, "0xbb", "0xaa") = some(1)

\* C2: whatever start_conversation, send_message, send_message_with_media and
\* mark_messages_as_read calls were made, no two Conversation objects have the same
\* pair of participants.
C2_OneConversationPerPair ==
    \A c1, c2 \in DOMAIN convs :
        Participants(convs[c1]) = Participants(convs[c2]) => c1 = c2

\* A conversation holds a message that was marked read, and its pair has just been
\* requested again.
C2_Witness ==
    /\ \E c \in DOMAIN convs :
          /\ Len(convs[c].messages) >= 1
          /\ convs[c].messages[1].is_read
          /\ tx.sender \in Participants(convs[c])
    /\ tx.op = "start_conversation" /\ tx.status = "success" /\ tx.created = none

\* The slots whose start_conversation was executed for the unordered pair {a, b}.
ExecutedFor(a, b) ==
    {slot \in 1..MaxInflight :
        /\ inflight[slot].state = "executed"
        /\ {inflight[slot].sender, inflight[slot].other_user} = {a, b}}

\* C3: of the start_conversation transactions in flight for one pair {A, B}, given
\* in either argument order and executed in any order, exactly one creates the
\* conversation; every other one succeeds, creates nothing and finds that one.
C3_OneWinner ==
    \A a, b \in Addr :
        (a # b /\ Cardinality(ExecutedFor(a, b)) >= 2) =>
            /\ Cardinality({slot \in ExecutedFor(a, b) :
                               inflight[slot].effects.created # none}) = 1
            /\ \A slot \in ExecutedFor(a, b) : inflight[slot].effects.status = "success"
            /\ Cardinality({c \in DOMAIN convs : Participants(convs[c]) = {a, b}}) = 1
            /\ \E slot \in ExecutedFor(a, b) :
                   /\ inflight[slot].effects.created # none
                   /\ get_conversation_id(conversations, a, b) = inflight[slot].effects.created
                   /\ get_conversation_id(conversations, b, a) = inflight[slot].effects.created

\* (0xaa, 0xbb) and (0xbb, 0xaa) were in flight together; the second was executed
\* first and created the conversation, the first then found it.
C3_Witness ==
    /\ inflight[1].state = "executed" /\ inflight[2].state = "executed"
    /\ inflight[1].sender = "0xaa" /\ inflight[1].other_user = "0xbb"
    /\ inflight[2].sender = "0xbb" /\ inflight[2].other_user = "0xaa"
    /\ 1 \in inflight[2].overlapped
    /\ inflight[2].effects.created # none
    /\ inflight[1].effects.created = none

\* C4: start_conversation by A with other_user = A aborts with ECannotMessageSelf,
\* creates no conversation and leaves the registry as it was.
C4_SelfConversationRejected ==
    [][\A a \in Addr :
          (tx'.op = "start_conversation" /\ StartConversation(a, a)) =>
              /\ tx'.status = "abort"
              /\ tx'.code = ECannotMessageSelf
              /\ tx'.created = none
              /\ UNCHANGED <<conversations, convs, ids_created>>
      ]_vars

\* A self-conversation was just refused in a state that already has a conversation.
C4_Witness ==
    /\ tx.op = "start_conversation"
    /\ tx.status = "abort" /\ tx.code = ECannotMessageSelf
    /\ DOMAIN convs # {}
    /\ tx.sender \in DOMAIN conversations

HasEntry(a, b) ==
    table_contains(conversations, a) /\ table_contains(table_borrow(conversations, a), b)

IndexSymmetric ==
    \A a, b \in Addr :
        /\ HasEntry(a, b) <=> HasEntry(b, a)
        /\ HasEntry(a, b) => conversations[a][b] = conversations[b][a]
        /\ get_conversation_id(conversations, a, b) = get_conversation_id(conversations, b, a)

\* C5: between calls the registry is symmetric: the entry A -> B exists exactly
\* when B -> A exists, both hold the same id, so get_conversation_id(A, B) equals
\* get_conversation_id(B, A); and get_conversation_id returns the registry's entry
\* and writes nothing.
C5_IndexSymmetricLookupPure ==
    /\ []IndexSymmetric
    /\ [][\A a, b \in Addr :
             (tx'.op = "get_conversation_id" /\ GetConversationId(a, b)) =>
                 /\ tx'.ret = some(get_conversation_id(conversations, b, a))
                 /\ UNCHANGED <<conversations, convs, ids_created, total_messages, clock>>
         ]_vars

\* Two conversations share 0xaa, and a lookup has just returned the id of one.
C5_Witness ==
    /\ HasEntry("0xaa", "0xbb") /\ HasEntry("0xcc", "0xaa")
    /\ tx.op = "get_conversation_id"
    /\ tx.ret = some(some(conversations["0xbb"]["0xaa"]))

\* C6: start_conversation for a pair that already has its conversation, in either
\* argument order, succeeds and changes nothing: registry, conversations (their
\* participants, messages, last_message_timestamp_ms), counters; it creates no
\* object and emits no event.
C6_ExistingPairNoEffect ==
    [][\A a, b \in Addr :
          (/\ tx'.op = "start_conversation"
           /\ a # b
           /\ conversation_exists(conversations, a, b)
           /\ StartConversation(a, b)) =>
              /\ tx'.status = "success"
              /\ tx'.created = none
              /\ tx'.events = <<>>
              /\ UNCHANGED <<conversations, convs, ids_created, total_messages, clock>>
      ]_vars

\* The only conversation holds a message, and the party it was opened with has just
\* asked for it again.
C6_Witness ==
    /\ tx.op = "start_conversation" /\ tx.status = "success" /\ tx.created = none
    /\ \E c \in DOMAIN convs :
          /\ tx.sender = convs[c].participant2
          /\ Len(convs[c].messages) >= 1
          /\ DOMAIN convs = {c}
SendOps == {"send_message", "send_message_with_media"}

C7_Counted ==
    \A c \in DOMAIN convs :
        LET messages == convs[c].messages
        IN  /\ Len(messages) = total_messages
            /\ Len(messages) > 0 =>
                   convs[c].last_message_timestamp_ms = messages[Len(messages)].timestamp_ms

C7_Appended(c, message) ==
    /\ tx'.status = "success"
    /\ convs'[c].messages = Append(convs[c].messages, message)
    /\ convs'[c].messages[Len(convs[c].messages) + 1] = message
    /\ convs'[c].last_message_timestamp_ms = message.timestamp_ms
    /\ total_messages' = total_messages + 1

\* C7: after N successful send_message / send_message_with_media calls, by either
\* participant, on the freshly created conversation, it holds exactly N messages and
\* last_message_timestamp_ms is the timestamp of the last one; each successful call
\* puts its message, stamped with the clock, at the index that was the length before
\* the call and leaves the earlier messages where they were.
C7_AppendOrderAndTimestamp ==
    /\ []C7_Counted
    /\ [][tx'.op \in SendOps =>
            \A c \in DOMAIN convs : \A s \in Participants(convs[c]) \cap {tx'.sender} :
                /\ \A b \in BlobIds \ {<<>>}, h \in Hashes \ {<<>>} :
                       SendMessage(c, s, b, h) =>
                           C7_Appended(c, Message(s, b, h, clock, FALSE, none))
                /\ \A b \in BlobIds \ {<<>>}, h \in Hashes \ {<<>>}, m \in MediaIds \ {<<>>} :
                       SendMessageWithMedia(c, s, b, h, m) =>
                           C7_Appended(c, Message(s, b, h, clock, FALSE, some(m)))
         ]_vars

\* Two messages, one from each participant and one by each entry function, the
\* second sent after the clock advanced.
C7_Witness ==
    /\ Len(convs[1].messages) = 2
    /\ convs[1].messages[1].sender = "0xaa" /\ convs[1].messages[1].timestamp_ms = 0
    /\ convs[1].messages[1].media_blob_id = none
    /\ convs[1].messages[2].sender = "0xbb" /\ convs[1].messages[2].timestamp_ms = 1
    /\ convs[1].messages[2].media_blob_id # none
    /\ convs[1].last_message_timestamp_ms = 1
    /\ tx.op = "send_message_with_media" /\ tx.status = "success"

\* C8: send_message and send_message_with_media by a sender that is neither
\* participant abort with ENotParticipant, and the conversation (its messages, their
\* is_read flags, last_message_timestamp_ms) is exactly as before.
C8_OutsiderCannotAppend ==
    [][tx'.op \in SendOps =>
          \A c \in DOMAIN convs : \A s \in {tx'.sender} \ Participants(convs[c]) :
              (\/ \E b \in BlobIds, h \in Hashes : SendMessage(c, s, b, h)
               \/ \E b \in BlobIds, h \in Hashes, m \in MediaIds :
                      SendMessageWithMedia(c, s, b, h, m)) =>
                  /\ tx'.status = "abort"
                  /\ tx'.code = ENotParticipant
                  /\ UNCHANGED <<convs, total_messages>>
      ]_vars

\* The outsider's send_message_with_media was just refused on a conversation that
\* holds a read and an unread message.
C8_Witness ==
    /\ tx.op = "send_message_with_media" /\ tx.sender = "0xcc"
    /\ tx.status = "abort" /\ tx.code = ENotParticipant
    /\ Len(convs[1].messages) = 2
    /\ convs[1].messages[1].is_read /\ ~convs[1].messages[2].is_read

C9_Refused(code) ==
    /\ tx'.status = "abort"
    /\ tx'.code = code
    /\ UNCHANGED <<convs, total_messages>>

\* C9 (as amended): a participant's send with an empty encrypted_content_blob_id
\* aborts with EInvalidBlobId, whatever the hash; with a non-empty blob id (and, for
\* send_message_with_media, a non-empty media blob id) and an empty content_hash it
\* aborts with EMessageEmpty: two distinct codes.  Either way the messages and
\* last_message_timestamp_ms are unchanged.
C9_EmptyReferenceCodes ==
    [][tx'.op \in SendOps =>
          \A c \in DOMAIN convs :
          \A s \in Participants(convs[c]) \cap {tx'.sender}, b \in BlobIds, h \in Hashes :
              /\ SendMessage(c, s, b, h) =>
                    /\ Len(b) = 0 => C9_Refused(EInvalidBlobId)
                    /\ (Len(b) > 0 /\ Len(h) = 0) => C9_Refused(EMessageEmpty)
              /\ \A m \in MediaIds :
                    SendMessageWithMedia(c, s, b, h, m) =>
                        /\ Len(b) = 0 => C9_Refused(EInvalidBlobId)
                        /\ (Len(b) > 0 /\ Len(m) > 0 /\ Len(h) = 0) => C9_Refused(EMessageEmpty)
      ]_vars

\* A participant's send_message with an empty content hash was just refused on a
\* conversation that holds messages.
C9_Witness ==
    /\ tx.op = "send_message" /\ tx.sender = "0xbb"
    /\ tx.status = "abort" /\ tx.code = EMessageEmpty
    /\ Len(convs[1].messages) >= 1

\* C9 as stated: a participant's send with an empty blob id and one with an empty
\* content hash fail with one and the same error.
C9_SingleErrorKind ==
    \A c \in DOMAIN convs : \A s \in Participants(convs[c]) :
        \A b1, b2 \in BlobIds, h1, h2 \in Hashes :
            ((Len(b1) = 0 \/ Len(h1) = 0) /\ (Len(b2) = 0 \/ Len(h2) = 0)) =>
                LET r1 == send_message(convs[c], s, b1, h1, clock)
                    r2 == send_message(convs[c], s, b2, h2, clock)
                IN  /\ r1.status = "abort" /\ r2.status = "abort"
                    /\ r1.code = r2.code

Min(x, y) == IF x <= y THEN x ELSE y

\* C10: mark_messages_as_read(up_to_index) by a participant succeeds and sets
\* is_read on exactly the messages at indices 0..min(up_to_index, last index) that
\* the reader did not send; the reader's own messages, the messages past
\* up_to_index and every other field stay as they were.
C10_MarksOthersUpToIndex ==
    [][tx'.op = "mark_messages_as_read" =>
          \A c \in DOMAIN convs :
          \A reader \in Participants(convs[c]) \cap {tx'.sender}, i \in UpToIndices :
              MarkMessagesAsRead(c, reader, i) =>
                  LET before == convs[c].messages
                      after == convs'[c].messages
                  IN  /\ tx'.status = "success"
                      /\ Len(after) = Len(before)
                      /\ \A k \in 1..Len(before) :
                             after[k] = IF k - 1 <= Min(i, Len(before) - 1)
                                           /\ before[k].sender # reader
                                        THEN [before[k] EXCEPT !.is_read = TRUE]
                                        ELSE before[k]
                      /\ convs'[c].last_message_timestamp_ms
                             = convs[c].last_message_timestamp_ms
      ]_vars

\* 0xaa sent the messages at 0 and 1, 0xbb the one at 2; 0xbb has just marked up to
\* index 0: the message at 0 is read, the one at 1 and 0xbb's own are not.
C10_Witness ==
    /\ tx.op = "mark_messages_as_read" /\ tx.sender = "0xbb" /\ tx.status = "success"
    /\ Len(convs[1].messages) = 3
    /\ convs[1].messages[1].sender = "0xaa" /\ convs[1].messages[1].is_read
    /\ convs[1].messages[2].sender = "0xaa" /\ ~convs[1].messages[2].is_read
    /\ convs[1].messages[3].sender = "0xbb" /\ ~convs[1].messages[3].is_read

\* C11: once mark_messages_as_read(up_to_index = i) by a participant has succeeded,
\* a further mark_messages_as_read by the same reader with any j <= i on the
\* conversation as it then stands succeeds and returns it identical: messages, their
\* is_read flags and last_message_timestamp_ms.
C11_MarkIdempotent ==
    [][tx'.op = "mark_messages_as_read" =>
          \A c \in DOMAIN convs :
          \A reader \in Participants(convs[c]) \cap {tx'.sender}, i \in UpToIndices :
              (MarkMessagesAsRead(c, reader, i) /\ tx'.status = "success") =>
                  \A j \in UpToIndices : j <= i =>
                      mark_messages_as_read(convs'[c], reader, j)
                          = ConvOutcome("success", 0, convs'[c], <<>>, 0)
      ]_vars

\* 0xbb has just marked messages of 0xaa as read: both of 0xaa's messages are read,
\* so the call covered index 1 and a further call may name index 0 or 1.
C11_Witness ==
    /\ tx.op = "mark_messages_as_read" /\ tx.sender = "0xbb" /\ tx.status = "success"
    /\ Len(convs[1].messages) = 2
    /\ \A k \in 1..2 : convs[1].messages[k].sender = "0xaa" /\ convs[1].messages[k].is_read

\* C12: mark_messages_as_read by a participant succeeds for every up_to_index, the
\* largest u64 included; with up_to_index at or past the length it leaves an empty
\* conversation as it was and a non-empty one as up_to_index = last index does.
C12_MarkNeverFails ==
    [][tx'.op = "mark_messages_as_read" =>
          \A c \in DOMAIN convs :
          \A reader \in Participants(convs[c]) \cap {tx'.sender}, i \in UpToIndices :
              MarkMessagesAsRead(c, reader, i) =>
                  LET length == Len(convs[c].messages)
                  IN  /\ tx'.status = "success"
                      /\ (i >= length /\ length = 0) => convs'[c] = convs[c]
                      /\ (i >= length /\ length > 0) =>
                             convs'[c] = [convs[c] EXCEPT !.messages =
                                 mark_messages_as_read_helper(convs[c].messages, reader,
                                                              0, length).messages]
      ]_vars

\* mark_messages_as_read has just succeeded on a conversation without messages, where
\* every up_to_index is past the end.
C12_EmptyWitness ==
    /\ tx.op = "mark_messages_as_read" /\ tx.sender = "0xaa" /\ tx.status = "success"
    /\ Len(convs[1].messages) = 0

\* C13: mark_messages_as_read by a reader that is neither participant aborts with
\* ENotParticipant and leaves every message, is_read included, as it was.
C13_OutsiderCannotMark ==
    [][tx'.op = "mark_messages_as_read" =>
          \A c \in DOMAIN convs : \A reader \in {tx'.sender} \ Participants(convs[c]) :
              (\E i \in UpToIndices : MarkMessagesAsRead(c, reader, i)) =>
                  /\ tx'.status = "abort"
                  /\ tx'.code = ENotParticipant
                  /\ UNCHANGED <<convs, total_messages>>
      ]_vars

\* The outsider's mark_messages_as_read was just refused on a conversation that holds
\* an unread message.
C13_Witness ==
    /\ tx.op = "mark_messages_as_read" /\ tx.sender = "0xcc"
    /\ tx.status = "abort" /\ tx.code = ENotParticipant
    /\ Len(convs[1].messages) >= 1
    /\ ~convs[1].messages[1].is_read

\* C14: in every step, a message that is new in the conversation has is_read = FALSE
\* and a message that was read before the step is read after it.
C14_IsReadMonotone ==
    [][\A c \in DOMAIN convs :
          /\ c \in DOMAIN convs'
          /\ \A k \in 1..Len(convs'[c].messages) :
                 IF k <= Len(convs[c].messages)
                 THEN convs[c].messages[k].is_read => convs'[c].messages[k].is_read
                 ELSE ~convs'[c].messages[k].is_read
      ]_vars

\* A message was read, a second one appended after it, and mark_messages_as_read has
\* run again since.
C14_Witness ==
    /\ tx.op = "mark_messages_as_read" /\ tx.status = "success"
    /\ Len(convs[1].messages) = 2
    /\ convs[1].messages[1].is_read /\ convs[1].messages[1].timestamp_ms = 0
    /\ ~convs[1].messages[2].is_read /\ convs[1].messages[2].timestamp_ms = 1

\* C15: in every step the message vector keeps its length or grows, and every
\* message already in it stays at its index with the same sender, blob id, content
\* hash, timestamp and media blob id; only is_read may differ.
C15_AppendOnly ==
    [][\A c \in DOMAIN convs :
          /\ c \in DOMAIN convs'
          /\ Len(convs'[c].messages) >= Len(convs[c].messages)
          /\ \A k \in 1..Len(convs[c].messages) :
                 [convs'[c].messages[k] EXCEPT !.is_read = convs[c].messages[k].is_read]
                     = convs[c].messages[k]
      ]_vars

\* Three different messages are in the conversation in the order they were sent, the
\* first of them read.
C15_Witness ==
    /\ Len(convs[1].messages) = 3
    /\ convs[1].messages[1].sender = "0xaa" /\ convs[1].messages[1].is_read
    /\ convs[1].messages[1].media_blob_id = none
    /\ convs[1].messages[2].sender = "0xbb" /\ convs[1].messages[2].media_blob_id # none
    /\ convs[1].messages[3].sender = "0xaa"
    /\ tx.op \in SendOps /\ tx.status = "success"

\* p and q hold the same elements, each as often, in some order.
IsPermutation(p, q) ==
    /\ Len(p) = Len(q)
    /\ \E f \in [1..Len(p) -> 1..Len(p)] :
           /\ \A i, j \in 1..Len(p) : f[i] = f[j] => i = j
           /\ \A i \in 1..Len(p) : p[i] = q[f[i]]

EncryptFns == {"encryptAndUploadMessage", "encryptAndUploadMedia"}
DecryptFns == {"decryptMessage", "decryptMedia"}

\* C16: the identity a call derives is the one createConversationIdentity gives for
\* the same conversation id and the participants in any other order; and the
\* identity decryptMessage or decryptMedia derives equals the identity under which
\* encryptAndUploadMessage or encryptAndUploadMedia sealed a blob whenever the two
\* calls got the same conversation id and the same participants in any order.
C16_IdentityOrderIndependent ==
    /\ client.identity # none =>
           \A q \in ParticipantArrays :
               IsPermutation(q, client.participantsAtCall) =>
                   createConversationIdentity(client.conversationId, q).identity
                       = client.identity
    /\ (client.fn \in DecryptFns /\ client.identity # none) =>
           \A b \in DOMAIN sealed :
               (/\ sealed[b].conversationId = client.conversationId
                /\ IsPermutation(sealed[b].participants, client.participantsAtCall)) =>
                   client.identity = sealed[b].identity

\* A blob was sealed for ["b", "ab"], and decryptMessage, called with ["ab", "b"] and
\* the same conversation id, has returned.
C16_Witness ==
    /\ client.fn = "decryptMessage" /\ client.pc = "returned"
    /\ client.blobId \in DOMAIN sealed
    /\ sealed[client.blobId].conversationId = client.conversationId
    /\ sealed[client.blobId].participants = <<<<98>>, <<97, 98>>>>
    /\ client.participantsAtCall = <<<<97, 98>>, <<98>>>>

\* C17: when decryptMessage returns for the blob id encryptAndUploadMessage returned,
\* with the same conversation id and participants and with the bytes downloaded
\* being the bytes uploaded, it returns the messageContent that was encrypted.
C17_RoundTrip ==
    (/\ client.fn = "decryptMessage" /\ client.pc = "returned"
     /\ client.blobId \in DOMAIN sealed
     /\ client.encryptedBytes = sealed[client.blobId].encryptedBytes
     /\ client.conversationId = sealed[client.blobId].conversationId
     /\ IsPermutation(client.participantsAtCall, sealed[client.blobId].participants)) =>
        client.result = sealed[client.blobId].payload

\* C18: decryptMessage returns, for a blob id that encryptAndUploadMessage returned,
\* only when the bytes it downloaded decrypt to the data that was encrypted; when
\* they decrypt to anything else it fails and hands nothing to its caller.
C18_TamperFailsClosed ==
    (/\ client.fn = "decryptMessage" /\ client.pc = "returned"
     /\ client.blobId \in DOMAIN sealed) =>
        client.encryptedBytes.data = sealed[client.blobId].encryptedBytes.data

\* C19: the contentHash encryptAndUploadMessage returns is the SHA-256 digest of the
\* UTF-8 bytes of messageContent, and verifyMessageHash accepts it; and
\* verifyMessageHash(messageContent, expectedHash) returns true exactly when
\* expectedHash is that digest, so not for the digest cut or extended by a byte.
C19_DigestOfPlaintextExactMatch ==
    /\ (client.fn = "encryptAndUploadMessage" /\ client.pc = "returned") =>
           /\ client.result.contentHash = sha256(TextEncoder_encode(client.payload))
           /\ verifyMessageHash(client.payload, client.result.contentHash)
    /\ (client.fn = "verifyMessageHash" /\ client.pc = "returned") =>
           (client.result <=>
                client.contentHash = sha256(TextEncoder_encode(client.payload)))

\* After a message was encrypted and stored, verifyMessageHash has returned false for
\* that message's digest extended by one byte.
C19_Witness ==
    /\ DOMAIN sealed # {}
    /\ client.fn = "verifyMessageHash" /\ client.pc = "returned"
    /\ client.payload = sealed[1].payload
    /\ Len(client.contentHash) = 33
    /\ SubSeq(client.contentHash, 1, 32) = sealed[1].result.contentHash
    /\ client.result = FALSE

Count(log, call) == Cardinality({i \in DOMAIN log : log[i] = call})

\* C20: a call of encryptAndUploadMessage or encryptAndUploadMedia awaits
\* sealClient.encrypt at most once and WalrusService.uploadFile at most once, the
\* upload only with the encryption's result in hand; when either rejects, the call
\* throws, having uploaded nothing and returning no blob id.  A call of
\* decryptMessage or decryptMedia awaits fetch at most once and sealClient.decrypt
\* at most once, the latter only after fetch gave it the bytes.
C20_NoRetryOrderedCalls ==
    /\ client.fn \in EncryptFns =>
           /\ Count(client.log, "sealClient.encrypt") <= 1
           /\ Count(client.log, "WalrusService.uploadFile") <= 1
           /\ Count(client.log, "WalrusService.uploadFile") = 1 =>
                  /\ client.log = <<"sealClient.encrypt", "WalrusService.uploadFile">>
                  /\ client.encryptedBytes = seal_encrypt(client.identity, client.data)
           /\ client.pc = "thrown" =>
                  /\ client.result = Failure(client.fn)
                  /\ client.blobId = none
                  /\ DOMAIN walrus = {}
           /\ client.pc = "returned" =>
                  client.log = <<"sealClient.encrypt", "WalrusService.uploadFile">>
    /\ client.fn \in DecryptFns =>
           /\ Count(client.log, "fetch") <= 1
           /\ Count(client.log, "sealClient.decrypt") <= 1
           /\ Count(client.log, "sealClient.decrypt") = 1 =>
                  /\ client.log = <<"fetch", "sealClient.decrypt">>
                  /\ client.blobId \in DOMAIN walrus
                  /\ client.encryptedBytes = walrus[client.blobId]
           /\ client.pc = "thrown" => client.result = Failure(client.fn)
           /\ client.pc = "returned" => client.log = <<"fetch", "sealClient.decrypt">>

\* encryptAndUploadMedia has thrown because the upload of the encrypted file was
\* rejected.
C20_Witness ==
    /\ client.fn = "encryptAndUploadMedia" /\ client.pc = "thrown"
    /\ client.log = <<"sealClient.encrypt", "WalrusService.uploadFile">>

\* The slots whose send transaction committed a message to conversation c.
Committed(c) ==
    {slot \in 1..MaxInflight :
        /\ inflight[slot].state = "executed"
        /\ inflight[slot].conversation = c
        /\ inflight[slot].effects.status = "success"}

\* The message a committed slot's transaction carries.
MessageOf(t) ==
    Message(t.sender, t.encrypted_content_blob_id, t.content_hash, t.timestamp_ms, FALSE,
            IF t.op = "send_message" THEN none ELSE some(t.media_blob_id))

\* C21: with send transactions in flight together and executed one at a time in any
\* order, each one that succeeds is in the conversation exactly once, at the index
\* that was the end of the vector when it committed and with the clock of its commit;
\* the vector holds these messages and no others, so it is in commit order; and
\* last_message_timestamp_ms is the timestamp of the last one committed.
C21_ConcurrentAppendsCommitOrder ==
    \A c \in DOMAIN convs :
        LET messages == convs[c].messages
        IN  /\ Len(messages) = Cardinality(Committed(c))
            /\ \A slot \in Committed(c) :
                   /\ inflight[slot].position \in 1..Len(messages)
                   /\ messages[inflight[slot].position] = MessageOf(inflight[slot])
            /\ \A s1, s2 \in Committed(c) :
                   inflight[s1].position = inflight[s2].position => s1 = s2
            /\ \A s1, s2 \in Committed(c) :
                   inflight[s1].position < inflight[s2].position =>
                       inflight[s1].timestamp_ms <= inflight[s2].timestamp_ms
            /\ Len(messages) > 0 =>
                   convs[c].last_message_timestamp_ms = messages[Len(messages)].timestamp_ms

\* Two sends by the two participants were in flight together; the one submitted
\* second committed first, the clock advanced, and the other committed after it.
C21_Witness ==
    /\ Committed(1) = {1, 2}
    /\ inflight[1].sender = "0xaa" /\ inflight[2].sender = "0xbb"
    /\ inflight[2].position = 1 /\ inflight[1].position = 2
    /\ 1 \in inflight[2].overlapped
    /\ inflight[2].timestamp_ms = 0 /\ inflight[1].timestamp_ms = 1
    /\ convs[1].last_message_timestamp_ms = 1

\* C22: every Conversation has participant1 # participant2, and no step changes the
\* participants of a Conversation or removes it.
C22_DistinctFixedParticipants ==
    /\ [](\A c \in DOMAIN convs : convs[c].participant1 # convs[c].participant2)
    /\ [][\A c \in DOMAIN convs :
              /\ c \in DOMAIN convs'
              /\ convs'[c].participant1 = convs[c].participant1
              /\ convs'[c].participant2 = convs[c].participant2
         ]_vars

\* A conversation of 0xaa and 0xbb holds a message and mark_messages_as_read has run
\* on it.
C22_Witness ==
    /\ DOMAIN convs = {1}
    /\ convs[1].participant1 = "0xaa" /\ convs[1].participant2 = "0xbb"
    /\ Len(convs[1].messages) = 1
    /\ tx.op = "mark_messages_as_read" /\ tx.status = "success"

\* C23: the sender of every stored message is participant1 or participant2 of its
\* conversation, and the message a successful send appends carries the address that
\* sent the transaction.
C23_SenderIsParticipant ==
    /\ [](\A c \in DOMAIN convs : \A k \in 1..Len(convs[c].messages) :
              convs[c].messages[k].sender \in Participants(convs[c]))
    /\ [][(tx'.op \in SendOps /\ tx'.status = "success") =>
              \A c \in DOMAIN convs :
                  convs'[c] # convs[c] =>
                      convs'[c].messages[Len(convs'[c].messages)].sender = tx'.sender
         ]_vars

\* Both participants have sent: 0xbb through send_message, then 0xaa through
\* send_message_with_media.
C23_Witness ==
    /\ Len(convs[1].messages) = 2
    /\ convs[1].messages[1].sender = "0xbb" /\ convs[1].messages[1].media_blob_id = none
    /\ convs[1].messages[2].sender = "0xaa" /\ convs[1].messages[2].media_blob_id # none
    /\ tx.op = "send_message_with_media" /\ tx.sender = "0xaa" /\ tx.status = "success"

\* C24: a message becomes read only in a step that is a successful
\* mark_messages_as_read on its conversation by the participant who did not send it,
\* with up_to_index at or past the message's index; the message was in the
\* conversation before that step.
C24_ReadOnlyByOtherParty ==
    [][\A c \in DOMAIN convs : \A k \in 1..Len(convs'[c].messages) :
          (convs'[c].messages[k].is_read
              /\ (k > Len(convs[c].messages) \/ ~convs[c].messages[k].is_read)) =>
              /\ k <= Len(convs[c].messages)
              /\ tx'.op = "mark_messages_as_read" /\ tx'.status = "success"
              /\ tx'.sender \in Participants(convs[c]) \ {convs[c].messages[k].sender}
              /\ \E i \in UpToIndices :
                     i >= k - 1 /\ MarkMessagesAsRead(c, tx'.sender, i)
      ]_vars

\* Each participant sent a message and each has marked the conversation: both
\* messages are read.
C24_Witness ==
    /\ Len(convs[1].messages) = 2
    /\ convs[1].messages[1].sender = "0xaa" /\ convs[1].messages[1].is_read
    /\ convs[1].messages[2].sender = "0xbb" /\ convs[1].messages[2].is_read
    /\ tx.op = "mark_messages_as_read" /\ tx.status = "success"

\* C25: a message appended by send_message has media_blob_id none; one appended by
\* send_message_with_media has media_blob_id some(m), m the non-empty id given; and
\* send_message_with_media by a participant with an empty media blob id aborts and
\* leaves the conversation as it was.
C25_MediaIffMediaVariant ==
    [][tx'.op \in SendOps =>
          \A c \in DOMAIN convs :
          \A s \in Participants(convs[c]) \cap {tx'.sender}, b \in BlobIds, h \in Hashes :
              /\ (SendMessage(c, s, b, h) /\ tx'.status = "success") =>
                     /\ Len(convs'[c].messages) = Len(convs[c].messages) + 1
                     /\ convs'[c].messages[Len(convs'[c].messages)].media_blob_id = none
              /\ \A m \in MediaIds :
                     SendMessageWithMedia(c, s, b, h, m) =>
                         /\ tx'.status = "success" =>
                                /\ Len(m) > 0
                                /\ Len(convs'[c].messages) = Len(convs[c].messages) + 1
                                /\ convs'[c].messages[Len(convs'[c].messages)].media_blob_id
                                       = some(m)
                         /\ Len(m) = 0 =>
                                /\ tx'.status = "abort"
                                /\ UNCHANGED <<convs, total_messages>>
      ]_vars

\* A message without media and one with media are in the conversation, and a
\* participant's send_message_with_media has just been refused for a blob id.
C25_Witness ==
    /\ Len(convs[1].messages) = 2
    /\ convs[1].messages[1].media_blob_id = none
    /\ convs[1].messages[2].media_blob_id = some(<<"m">>)
    /\ tx.op = "send_message_with_media" /\ tx.sender = "0xaa"
    /\ tx.status = "abort" /\ tx.code = EInvalidBlobId

\* C28: start_conversation by a with b # a never aborts, whatever conversations a and
\* b already have with third parties (no table::add meets a key that is present), and
\* it leaves their registry entries for third parties as they were.
C28_StartNeverAbortsOnThirdParties ==
    [][tx'.op = "start_conversation" =>
          \A a, b \in Addr :
              (a # b /\ StartConversation(a, b)) =>
                  /\ tx'.status \notin {"abort", "abort_dynamic_field"}
                  /\ tx'.status = "success"
                  /\ \A u \in {a, b}, o \in Addr \ {a, b} :
                         get_conversation_id(conversations', u, o)
                             = get_conversation_id(conversations, u, o)
      ]_vars

\* 0xaa and 0xcc each had a conversation with 0xbb, and 0xaa has just opened a third
\* conversation, with 0xcc.
C28_Witness ==
    /\ Cardinality(DOMAIN convs) = 3
    /\ get_conversation_id(conversations, "0xaa", "0xbb") = some(1)
    /\ get_conversation_id(conversations, "0xcc", "0xbb") = some(2)
    /\ tx.op = "start_conversation" /\ tx.sender = "0xaa"
    /\ tx.status = "success" /\ tx.created = some(3)
    /\ get_conversation_id(conversations, "0xcc", "0xaa") = some(3)

\* C27: no pipeline operation modifies its arguments: when a call has returned, the
\* caller's participants array holds its elements in the order the caller gave them.
C27_ArgumentsUnmodified ==
    (client.fn \in EncryptFns \cup DecryptFns /\ client.pc \in {"returned", "thrown"}) =>
        client.participants = client.participantsAtCall

\* The string holds '-'.
HasSeparator(string) == \E i \in 1..Len(string) : string[i] = 45

SeparatorFree(conversationId, participants) ==
    /\ ~HasSeparator(conversationId)
    /\ \A i \in 1..Len(participants) : ~HasSeparator(participants[i])

C29_OtherConversationsUntouched ==
    [][tx'.status = "success" =>
          \A c \in DOMAIN convs :
              /\ (\/ /\ tx'.op = "send_message"
                     /\ SendMessage(c, tx'.sender, <<"b", "1">>, <<171>>)
                  \/ /\ tx'.op = "send_message_with_media"
                     /\ SendMessageWithMedia(c, tx'.sender, <<"b", "1">>, <<171>>, <<"m">>)) =>
                     /\ conversations' = conversations
                     /\ DOMAIN convs' = DOMAIN convs
                     /\ \A d \in DOMAIN convs \ {c} : convs'[d] = convs[d]
              /\ (/\ tx'.op = "mark_messages_as_read"
                  /\ \E i \in UpToIndices : MarkMessagesAsRead(c, tx'.sender, i)) =>
                     /\ conversations' = conversations
                     /\ DOMAIN convs' = DOMAIN convs
                     /\ \A d \in DOMAIN convs \ {c} : convs'[d] = convs[d]
                     /\ Len(convs'[c].messages) = Len(convs[c].messages)
                     /\ convs'[c].last_message_timestamp_ms
                            = convs[c].last_message_timestamp_ms
      ]_vars

\* Each conversation holds one message, written at different times; the message of
\* conversation 1 has just been marked read and the one of conversation 2 is unread.
C29_Witness ==
    /\ DOMAIN convs = {1, 2}
    /\ Len(convs[1].messages) = 1 /\ Len(convs[2].messages) = 1
    /\ convs[1].last_message_timestamp_ms # convs[2].last_message_timestamp_ms
    /\ convs[1].messages[1].is_read
    /\ ~convs[2].messages[1].is_read
    /\ tx.op = "mark_messages_as_read" /\ tx.status = "success"

\* The indices 0, 1, ..., n - 1 in this order.
FirstIndices(n) == [k \in 1..n |-> k - 1]

\* C26: a mark_messages_as_read transaction that started always comes to its end;
\* until then the indices its helper has visited are 0, 1, 2, ... in this order,
\* each once, and when the helper has returned they are all of
\* 0 .. min(up_to_index + 1, number of messages) - 1; what the transaction then
\* writes is what mark_messages_as_read gives.
C26_HelperTerminates ==
    /\ [](marking.state # "idle" =>
             LET end == Min(marking.up_to_index + 1, Len(marking.messages))
             IN  /\ marking.state # "aborted"
                 /\ Len(marking.visited) <= end
                 /\ marking.visited = FirstIndices(Len(marking.visited))
                 /\ marking.state \in {"returning", "done"} =>
                        marking.visited = FirstIndices(end))
    /\ [][(marking'.state = "done" /\ marking.state # "done") =>
              convs'[marking.conversation]
                  = mark_messages_as_read(convs[marking.conversation], marking.reader,
                                          marking.up_to_index).conversation]_vars
    /\ (marking.state = "running") ~> (marking.state = "done")

\* mark_messages_as_read with the largest up_to_index has come to its end on a
\* conversation of three messages, having visited indices 0, 1 and 2.
C26_Witness ==
    /\ marking.state = "done"
    /\ marking.up_to_index = MAX_U64
    /\ marking.visited = <<0, 1, 2>>
    /\ Len(convs[1].messages) = 3
    /\ tx.op = "mark_messages_as_read" /\ tx.status = "success"
====
